---- MODULE Spec2Model ----
(***************************************************************************)
(* Model of src/src/optimizations.js: the header cache, the URL cache, the *)
(* buffer pool, the two keep-alive agents with their sockets, the          *)
(* optimization toggle and the statistics of the node-fetch fork.          *)
(*                                                                         *)
(* JavaScript objects are modelled with their identity: a header object,   *)
(* an array, a URL object and a Buffer are references into a heap, and a   *)
(* Map is the sequence of its entries in insertion order.                  *)
(***************************************************************************)
EXTENDS Integers, Sequences, FiniteSets, TLC

VARIABLES
    optimizationsEnabled,  \* let optimizationsEnabled (line 34)
    headerCache,           \* const headerCache = new Map(): <<[key, ref]>> in insertion order
    urlCache,              \* const urlCache = new Map(): <<[key, ref]>> in insertion order
    pool,                  \* bufferPool.pool: array of Buffer references, top = last
    objHeap,               \* header objects: ref |-> [name |-> value]
    arrHeap,               \* arrays held as header values: ref |-> <<strings>>
    urlHeap,               \* URL objects: ref |-> [protocol, host, pathname]
    bufLen,                \* Buffers: ref |-> buffer.length
    produced,              \* history: per header key, the factory last invoked for it
    heldHeaders,           \* the header object the caller last received (0: none)
    heldURL,               \* the URL object the caller last received (0: none)
    heldBufs,              \* the Buffers the caller holds
    sockets,               \* agent.sockets: per agent and destination, sockets in use
    freeSockets,           \* agent.freeSockets: per agent and destination, idle sockets
    handedOut,             \* the agents getOptimizedAgent has returned to a caller
    trace,                 \* history: the calls of setOptimizationsEnabled and
                           \* getOptimizedAgent so far, oldest first
    ret,                   \* the last call: what was called and what it returned
    steps                  \* number of calls made so far

vars == <<optimizationsEnabled, headerCache, urlCache, pool, objHeap, arrHeap,
          urlHeap, bufLen, produced, heldHeaders, heldURL, heldBufs, sockets,
          freeSockets, handedOut, trace, ret, steps>>

\* the state of the two agents and of who was given them
agentState == <<sockets, freeSockets, handedOut>>

----------------------------------------------------------------------------
(* Program constants *)

MAX_HEADER_CACHE_SIZE == 1000

MAX_URL_CACHE_SIZE == 1000

maxPoolSize == 100

bufferSize == 16384

\* maxSockets and maxFreeSockets of the two agents
maxSockets == 256

maxFreeSockets == 256

(* Bounds of the model *)

\* calls per behaviour
MaxSteps == 3

\* distinct header keys / URL texts that are new to a warm cache
NewKeys == 2

----------------------------------------------------------------------------
(* Strings are sequences of characters, so that parsing and serialising a  *)
(* URL are computed.  A decimal number inside a text is one token.         *)

Lower(c) ==
    CASE c = "H" -> "h"
      [] c = "T" -> "t"
      [] c = "P" -> "p"
      [] c = "S" -> "s"
      [] c = "X" -> "x"
      [] c = "Y" -> "y"
      [] OTHER -> c

LowerAll(s) == [i \in 1..Len(s) |-> Lower(s[i])]

IsAlpha(c) == Lower(c) \in {"h", "t", "p", "s", "x", "y", "z", "a"}

\* index of the first occurrence of c in s, 0 when there is none
IndexOf(s, c) ==
    IF \E i \in 1..Len(s) : s[i] = c
    THEN CHOOSE i \in 1..Len(s) : s[i] = c /\ \A j \in 1..(i - 1) : s[j] # c
    ELSE 0

\* s without its leading "/" characters
RECURSIVE SkipSlashes(_)
SkipSlashes(s) ==
    IF s # <<>> /\ Head(s) = "/" THEN SkipSlashes(Tail(s)) ELSE s

Failure == [ok |-> FALSE, protocol |-> <<>>, host |-> <<>>, pathname |-> <<>>]

IsSpecial(scheme) == scheme \in {<<"h", "t", "t", "p">>, <<"h", "t", "t", "p", "s">>}

(* new URL(text) with no base, for texts over letters, ":" and "/":        *)
(* a text with no scheme is a TypeError; the scheme and the host of an     *)
(* http(s) URL are lower-cased, any run of slashes after the scheme is     *)
(* skipped, an empty host is a TypeError and an empty path becomes "/".    *)
(* Any other scheme keeps the rest of the text as an opaque path.          *)
ParseURL(text) ==
    LET colon == IndexOf(text, ":") IN
    IF colon <= 1 \/ \E i \in 1..(colon - 1) : ~IsAlpha(text[i])
    THEN Failure
    ELSE
        LET scheme == LowerAll(SubSeq(text, 1, colon - 1))
            rest   == SubSeq(text, colon + 1, Len(text))
        IN  IF ~IsSpecial(scheme)
            THEN [ok |-> TRUE, protocol |-> Append(scheme, ":"),
                  host |-> <<>>, pathname |-> rest]
            ELSE
                LET after == SkipSlashes(rest)
                    slash == IndexOf(after, "/")
                    host  == IF slash = 0 THEN after ELSE SubSeq(after, 1, slash - 1)
                    path  == IF slash = 0 THEN <<"/">> ELSE SubSeq(after, slash, Len(after))
                IN  IF host = <<>>
                    THEN Failure
                    ELSE [ok |-> TRUE, protocol |-> Append(scheme, ":"),
                          host |-> LowerAll(host), pathname |-> path]

\* url.href: the serialisation of a URL object
Href(u) ==
    IF IsSpecial(SubSeq(u.protocol, 1, Len(u.protocol) - 1))
    THEN u.protocol \o <<"/", "/">> \o u.host \o u.pathname
    ELSE u.protocol \o u.pathname

URLObject(parsed) ==
    [protocol |-> parsed.protocol, host |-> parsed.host, pathname |-> parsed.pathname]

\* the canonical form of a text: the href of its parse
Canonical(text) == Href(URLObject(ParseURL(text)))

----------------------------------------------------------------------------
(* Header objects: [accept, setCookie].  accept holds a string; setCookie  *)
(* holds a multi-valued header, an array of strings, as a reference into   *)
(* arrHeap (0: the property is absent).                                    *)

\* the factories that return; a factory that throws is getCachedHeadersThrow
Factories == {"plain", "multi"}

\* the object factory f builds; arr is the reference of the array it allocates
FactoryObject(f, arr) ==
    IF f = "multi"
    THEN [accept |-> "a", setCookie |-> arr]
    ELSE [accept |-> "a", setCookie |-> 0]

\* the arrays factory f allocates
FactoryArrays(f) == IF f = "multi" THEN << <<"c1", "c2">> >> ELSE <<>>

\* the value of a header object, arrays followed: what value-equality compares
DeepValue(obj, arrs) ==
    [accept |-> obj.accept,
     hasSetCookie |-> obj.setCookie # 0,
     setCookie |-> IF obj.setCookie # 0 THEN arrs[obj.setCookie] ELSE <<>>]

\* the value factory f produces
FactoryValue(f) == DeepValue(FactoryObject(f, 1), FactoryArrays(f))

\* {...obj}: a new object with obj's own properties; a property that holds
\* a reference is copied as that reference
Spread(obj) == [n \in DOMAIN obj |-> obj[n]]

\* a slip: return the stored object instead of a copy of it
SpreadNewAliased(heap, ref) == [heap |-> heap, ref |-> ref]

\* return {...heap[ref]}: the heap with the copy allocated, and the copy's reference
SpreadNew(heap, ref) ==
    [heap |-> Append(heap, Spread(heap[ref])), ref |-> Len(heap) + 1]

----------------------------------------------------------------------------
(* Map: the sequence of its entries [key, ref] in insertion order *)

\* a slip: a lookup that does not see the newest entry (a check that ran before
\* another caller's set)
MapHasButNewest(m, k) == \E i \in 1..(Len(m) - 1) : m[i].key = k

MapHas(m, k) == \E i \in 1..Len(m) : m[i].key = k

MapGet(m, k) == m[CHOOSE i \in 1..Len(m) : m[i].key = k].ref

MapKeys(m) == {m[i].key : i \in 1..Len(m)}

\* a slip: the most recently inserted key instead of the first
MapLastKey(m) == m[Len(m)].key

\* m.keys().next().value
MapFirstKey(m) == m[1].key

MapDelete(m, k) == SelectSeq(m, LAMBDA e : e.key # k)

\* m.set(k, r): an existing key keeps its place
MapSet(m, k, r) ==
    IF MapHas(m, k)
    THEN [i \in 1..Len(m) |-> IF m[i].key = k THEN [key |-> k, ref |-> r] ELSE m[i]]
    ELSE Append(m, [key |-> k, ref |-> r])

\* a slip: evict only above capacity
HeaderCacheStoreLate(cache, key, ref) ==
    MapSet(IF Len(cache) > MAX_HEADER_CACHE_SIZE
           THEN MapDelete(cache, MapFirstKey(cache))
           ELSE cache, key, ref)

\* a slip: the result is never stored
HeaderCacheStoreDropped(cache, key, ref) == cache

\* lines 73-79: evict the first key at capacity, then store
HeaderCacheStore(cache, key, ref) ==
    MapSet(IF Len(cache) >= MAX_HEADER_CACHE_SIZE
           THEN MapDelete(cache, MapFirstKey(cache))
           ELSE cache, key, ref)

\* a slip: the cache is keyed by the parsed URL's href
UrlCacheStoreCanonical(cache, key, ref) ==
    MapSet(IF Len(cache) >= MAX_URL_CACHE_SIZE
           THEN MapDelete(cache, MapFirstKey(cache))
           ELSE cache, Canonical(key), ref)

\* lines 145-151: evict the first key at capacity, then store
UrlCacheStore(cache, key, ref) ==
    MapSet(IF Len(cache) >= MAX_URL_CACHE_SIZE
           THEN MapDelete(cache, MapFirstKey(cache))
           ELSE cache, key, ref)

\* a slip: a read moves the entry to the end of the eviction order
CacheAfterHitTouched(cache, key) == MapSet(MapDelete(cache, key), key, MapGet(cache, key))

\* lines 67-69 and 137-141: what a hit leaves of the cache (has and get only)
CacheAfterHit(cache, key) == cache

----------------------------------------------------------------------------
(* Inputs *)

\* header cache keys: key i stands for the i-th distinct key string
OldKeys == {1}

Keys == 1..(MAX_HEADER_CACHE_SIZE + NewKeys - 1)

FreshKeys == MAX_HEADER_CACHE_SIZE..(MAX_HEADER_CACHE_SIZE + NewKeys - 1)

ProbeKeys == OldKeys \cup FreshKeys

\* the text "http://x/<i>"
PathText(i) == <<"h", "t", "t", "p", ":", "/", "/", "x", "/", ToString(i)>>

\* the text "HTTP://X/1": another spelling of "http://x/1"
UpperText == <<"H", "T", "T", "P", ":", "/", "/", "X", "/", "1">>

\* "x/1" has no scheme and "http://" has no host: new URL throws on both
BadTexts == {<<"x", "/", "1">>, <<"h", "t", "t", "p", ":", "/", "/">>}

FreshTexts == {PathText(i) : i \in MAX_URL_CACHE_SIZE..(MAX_URL_CACHE_SIZE + NewKeys - 1)}

ProbeTexts == {PathText(1), UpperText} \cup FreshTexts \cup BadTexts

\* acquire(size): below, at (the default) and above the pool's buffer size
Sizes == {bufferSize - 1, bufferSize, bufferSize + 1}

Protocols == {"http:", "https:"}

\* the two module-level agents, by identity
Agents == {"httpAgent", "httpsAgent"}

\* the names under which an agent files its sockets (host:port:)
Destinations == {"x:80:", "y:80:"}

----------------------------------------------------------------------------
(* The record of the last call.  hit: the key was cached (getCachedHeaders, *)
(* getOptimizedURL), a pooled buffer was taken (acquire), the buffer was   *)
(* pooled (release).  error: the call threw.                               *)

NoStats ==
    [headerCacheSize |-> 0, urlCacheSize |-> 0, bufferPoolSize |-> 0,
     httpAgentSockets |-> 0, httpsAgentSockets |-> 0,
     httpAgentFreeSockets |-> 0, httpsAgentFreeSockets |-> 0]

NoCall ==
    [op |-> "none", key |-> 0, text |-> <<>>, factory |-> "", arg |-> 0,
     hit |-> FALSE, factoryCalls |-> 0, result |-> 0, agent |-> "", error |-> FALSE,
     protocol |-> "", enabled |-> FALSE, dest |-> "", stats |-> NoStats]

----------------------------------------------------------------------------
(* Initial states: the module as loaded (every structure empty), and the  *)
(* states it is in after a run of distinct-key misses has filled a         *)
(* structure to one entry below its capacity (warm).                       *)

NoneProduced == [k \in Keys |-> "none"]

ColdHeaders ==
    /\ headerCache = <<>>
    /\ objHeap = <<>>
    /\ produced = NoneProduced

\* after getCachedHeaders(i, plain) for i = 1 .. capacity - 1
WarmHeaders ==
    /\ headerCache = [i \in 1..(MAX_HEADER_CACHE_SIZE - 1) |-> [key |-> i, ref |-> i]]
    /\ objHeap = [i \in 1..(MAX_HEADER_CACHE_SIZE - 1) |-> FactoryObject("plain", 0)]
    /\ produced = [k \in Keys |-> IF k < MAX_HEADER_CACHE_SIZE THEN "plain" ELSE "none"]

ColdURLs ==
    /\ urlCache = <<>>
    /\ urlHeap = <<>>

\* after getOptimizedURL("http://x/<i>") for i = 1 .. capacity - 1
WarmURLs ==
    /\ urlCache = [i \in 1..(MAX_URL_CACHE_SIZE - 1) |-> [key |-> PathText(i), ref |-> i]]
    /\ urlHeap = [i \in 1..(MAX_URL_CACHE_SIZE - 1) |-> URLObject(ParseURL(PathText(i)))]

ColdPool ==
    /\ pool = <<>>
    /\ bufLen = <<>>
    /\ heldBufs = {}

\* after maxPoolSize + 1 acquire() calls on the empty pool and maxPoolSize - 1
\* releases: two buffers are still with the caller
WarmPool ==
    /\ pool = [i \in 1..(maxPoolSize - 1) |-> i]
    /\ bufLen = [i \in 1..(maxPoolSize + 1) |-> bufferSize]
    /\ heldBufs = {maxPoolSize, maxPoolSize + 1}

NoSockets == [a \in Agents |-> [d \in Destinations |-> 0]]

\* the agents as constructed at load: no sockets, and nobody has them
ColdAgents ==
    /\ sockets = NoSockets
    /\ freeSockets = NoSockets
    /\ handedOut = {}

\* after getOptimizedAgent("http:") and getOptimizedAgent("https:"), with one
\* request over each agent in flight
WarmAgents ==
    /\ sockets = [a \in Agents |-> [d \in Destinations |-> IF d = "x:80:" THEN 1 ELSE 0]]
    /\ freeSockets = NoSockets
    /\ handedOut = Agents

Fresh ==
    /\ optimizationsEnabled = TRUE
    /\ arrHeap = <<>>
    /\ heldHeaders = 0
    /\ heldURL = 0
    /\ trace = <<>>
    /\ ret = NoCall
    /\ steps = 0

Init == Fresh /\ ColdHeaders /\ ColdURLs /\ ColdPool /\ ColdAgents

InitHeaders == Fresh /\ (ColdHeaders \/ WarmHeaders) /\ ColdURLs /\ ColdPool /\ ColdAgents

InitURLs == Fresh /\ ColdHeaders /\ (ColdURLs \/ WarmURLs) /\ ColdPool /\ ColdAgents

InitCaches ==
    /\ Fresh
    /\ (ColdHeaders /\ ColdURLs) \/ (WarmHeaders /\ WarmURLs)
    /\ ColdPool
    /\ ColdAgents

InitPool == Fresh /\ ColdHeaders /\ ColdURLs /\ (ColdPool \/ WarmPool) /\ ColdAgents

\* the whole module, from load or with both agents in use
InitAgents == Fresh /\ ColdHeaders /\ ColdURLs /\ ColdPool /\ (ColdAgents \/ WarmAgents)

----------------------------------------------------------------------------
(* Operations *)

\* setOptimizationsEnabled(enabled)
setOptimizationsEnabled(enabled) ==
    /\ steps < MaxSteps
    /\ optimizationsEnabled' = enabled
    /\ ret' = [NoCall EXCEPT !.op = "setOptimizationsEnabled", !.enabled = enabled]
    /\ steps' = steps + 1
    /\ trace' = Append(trace, ret')
    /\ UNCHANGED agentState
    /\ UNCHANGED <<headerCache, urlCache, pool, objHeap, arrHeap, urlHeap, bufLen,
                   produced, heldHeaders, heldURL, heldBufs>>

\* a slip: the lookup does not consult the toggle
AgentForAlways(enabled, protocol) ==
    IF protocol = "https:" THEN "httpsAgent" ELSE "httpAgent"

\* the value getOptimizedAgent(protocol) returns
AgentFor(enabled, protocol) ==
    IF ~enabled THEN "undefined"
    ELSE IF protocol = "https:" THEN "httpsAgent" ELSE "httpAgent"

getOptimizedAgent(protocol) ==
    /\ steps < MaxSteps
    /\ ret' = [NoCall EXCEPT !.op = "getOptimizedAgent", !.protocol = protocol,
                             !.agent = AgentFor(optimizationsEnabled, protocol)]
    /\ handedOut' = handedOut \cup ({AgentFor(optimizationsEnabled, protocol)} \cap Agents)
    /\ steps' = steps + 1
    /\ trace' = Append(trace, ret')
    /\ UNCHANGED <<sockets, freeSockets>>
    /\ UNCHANGED <<optimizationsEnabled, headerCache, urlCache, pool, objHeap, arrHeap,
                   urlHeap, bufLen, produced, heldHeaders, heldURL, heldBufs>>

\* getCachedHeaders(key, factory), key present: lines 67-69
getCachedHeadersHit(key, f) ==
    /\ steps < MaxSteps
    /\ MapHas(headerCache, key)
    /\ LET copy == SpreadNew(objHeap, MapGet(headerCache, key)) IN
        /\ objHeap' = copy.heap
        /\ heldHeaders' = copy.ref
        /\ ret' = [NoCall EXCEPT !.op = "getCachedHeaders", !.key = key, !.factory = f,
                                 !.hit = TRUE, !.result = copy.ref]
    /\ headerCache' = CacheAfterHit(headerCache, key)
    /\ steps' = steps + 1
    /\ UNCHANGED trace
    /\ UNCHANGED agentState
    /\ UNCHANGED <<optimizationsEnabled, urlCache, pool, arrHeap, urlHeap,
                   bufLen, produced, heldURL, heldBufs>>

\* getCachedHeaders(key, factory), key absent: lines 71-80
getCachedHeadersMiss(key, f) ==
    /\ steps < MaxSteps
    /\ ~MapHas(headerCache, key)
    /\ LET headers == Len(objHeap) + 1
           made    == Append(objHeap, FactoryObject(f, Len(arrHeap) + 1))
           stored  == HeaderCacheStore(headerCache, key, headers)
           copy    == SpreadNew(made, headers)
       IN
        /\ arrHeap' = arrHeap \o FactoryArrays(f)
        /\ headerCache' = stored
        /\ objHeap' = copy.heap
        /\ heldHeaders' = copy.ref
        /\ produced' = [produced EXCEPT ![key] = f]
        /\ ret' = [NoCall EXCEPT !.op = "getCachedHeaders", !.key = key, !.factory = f,
                                 !.factoryCalls = 1, !.result = copy.ref]
    /\ steps' = steps + 1
    /\ UNCHANGED trace
    /\ UNCHANGED agentState
    /\ UNCHANGED <<optimizationsEnabled, urlCache, pool, urlHeap, bufLen, heldURL, heldBufs>>

\* a slip: factory() called after making room, so that a throw has evicted
HeaderCacheAfterFactoryThrowEvicted(cache, key) ==
    IF Len(cache) >= MAX_HEADER_CACHE_SIZE THEN MapDelete(cache, MapFirstKey(cache)) ELSE cache

\* what a factory() that throws at line 71 leaves of the cache: lines 73-79 do
\* not run
HeaderCacheAfterFactoryThrow(cache, key) == cache

\* getCachedHeaders(key, factory), key absent and factory() throws: line 71
getCachedHeadersThrow(key) ==
    /\ steps < MaxSteps
    /\ ~MapHas(headerCache, key)
    /\ ret' = [NoCall EXCEPT !.op = "getCachedHeaders", !.key = key, !.factory = "throws",
                             !.factoryCalls = 1, !.error = TRUE]
    /\ headerCache' = HeaderCacheAfterFactoryThrow(headerCache, key)
    /\ steps' = steps + 1
    /\ UNCHANGED trace
    /\ UNCHANGED agentState
    /\ UNCHANGED <<optimizationsEnabled, urlCache, pool, objHeap, arrHeap,
                   urlHeap, bufLen, produced, heldHeaders, heldURL, heldBufs>>

\* the caller assigns a header of the object it received
MutateHeadersSet ==
    /\ steps < MaxSteps
    /\ heldHeaders # 0
    /\ objHeap' = [objHeap EXCEPT ![heldHeaders].accept = "z"]
    /\ ret' = [NoCall EXCEPT !.op = "mutateHeaders"]
    /\ steps' = steps + 1
    /\ UNCHANGED trace
    /\ UNCHANGED agentState
    /\ UNCHANGED <<optimizationsEnabled, headerCache, urlCache, pool, arrHeap, urlHeap,
                   bufLen, produced, heldHeaders, heldURL, heldBufs>>

\* the caller pushes onto a multi-valued header of the object it received
MutateHeadersPush ==
    /\ steps < MaxSteps
    /\ heldHeaders # 0
    /\ objHeap[heldHeaders].setCookie # 0
    /\ arrHeap' = [arrHeap EXCEPT ![objHeap[heldHeaders].setCookie] = Append(@, "z")]
    /\ ret' = [NoCall EXCEPT !.op = "mutateHeaders"]
    /\ steps' = steps + 1
    /\ UNCHANGED trace
    /\ UNCHANGED agentState
    /\ UNCHANGED <<optimizationsEnabled, headerCache, urlCache, pool, objHeap, urlHeap,
                   bufLen, produced, heldHeaders, heldURL, heldBufs>>

\* getOptimizedURL(url), url instanceof URL: lines 131-133
getOptimizedURLObject ==
    /\ steps < MaxSteps
    /\ heldURL # 0
    /\ ret' = [NoCall EXCEPT !.op = "getOptimizedURLObject", !.arg = heldURL,
                             !.result = heldURL]
    /\ steps' = steps + 1
    /\ UNCHANGED trace
    /\ UNCHANGED agentState
    /\ UNCHANGED <<optimizationsEnabled, headerCache, urlCache, pool, objHeap, arrHeap,
                   urlHeap, bufLen, produced, heldHeaders, heldURL, heldBufs>>

\* a slip: return cached
ReparseNewAliased(heap, ref) == [heap |-> heap, ref |-> ref]

\* return new URL(cached.href): the heap with the new object, and its reference
ReparseNew(heap, ref) ==
    [heap |-> Append(heap, URLObject(ParseURL(Href(heap[ref])))), ref |-> Len(heap) + 1]

\* getOptimizedURL(text), text cached: lines 137-141
getOptimizedURLHit(text) ==
    /\ steps < MaxSteps
    /\ MapHas(urlCache, text)
    /\ LET fresh == ReparseNew(urlHeap, MapGet(urlCache, text)) IN
        /\ urlHeap' = fresh.heap
        /\ heldURL' = fresh.ref
        /\ ret' = [NoCall EXCEPT !.op = "getOptimizedURL", !.text = text, !.hit = TRUE,
                                 !.result = fresh.ref]
    /\ urlCache' = CacheAfterHit(urlCache, text)
    /\ steps' = steps + 1
    /\ UNCHANGED trace
    /\ UNCHANGED agentState
    /\ UNCHANGED <<optimizationsEnabled, headerCache, pool, objHeap, arrHeap,
                   bufLen, produced, heldHeaders, heldBufs>>

\* the object getOptimizedURL returns on a miss, given the parsed, stored one
MissResult(parsedURL) == parsedURL

\* getOptimizedURL(text), text not cached and parsed: lines 143-152
getOptimizedURLMiss(text) ==
    /\ steps < MaxSteps
    /\ ParseURL(text).ok
    /\ ~MapHas(urlCache, text)
    /\ LET parsedURL == Len(urlHeap) + 1 IN
        /\ urlHeap' = Append(urlHeap, URLObject(ParseURL(text)))
        /\ urlCache' = UrlCacheStore(urlCache, text, parsedURL)
        /\ heldURL' = MissResult(parsedURL)
        /\ ret' = [NoCall EXCEPT !.op = "getOptimizedURL", !.text = text,
                                 !.result = MissResult(parsedURL)]
    /\ steps' = steps + 1
    /\ UNCHANGED trace
    /\ UNCHANGED agentState
    /\ UNCHANGED <<optimizationsEnabled, headerCache, pool, objHeap, arrHeap, bufLen,
                   produced, heldHeaders, heldBufs>>

\* a slip: parse after making room, so that a failed parse has evicted
CacheAfterThrowEvicted(cache, text) ==
    IF Len(cache) >= MAX_URL_CACHE_SIZE THEN MapDelete(cache, MapFirstKey(cache)) ELSE cache

\* what a failed new URL(text) at line 143 leaves of the cache
CacheAfterThrow(cache, text) == cache

\* getOptimizedURL(text), text not cached, new URL(text) throws: line 143
getOptimizedURLThrow(text) ==
    /\ steps < MaxSteps
    /\ ~ParseURL(text).ok
    /\ ~MapHas(urlCache, text)
    /\ urlCache' = CacheAfterThrow(urlCache, text)
    /\ ret' = [NoCall EXCEPT !.op = "getOptimizedURL", !.text = text, !.error = TRUE]
    /\ steps' = steps + 1
    /\ UNCHANGED trace
    /\ UNCHANGED agentState
    /\ UNCHANGED <<optimizationsEnabled, headerCache, pool, objHeap, arrHeap, urlHeap,
                   bufLen, produced, heldHeaders, heldURL, heldBufs>>

\* the caller assigns url.pathname = "/z" on the URL object it received
MutateURLPath ==
    /\ steps < MaxSteps
    /\ heldURL # 0
    /\ urlHeap' = [urlHeap EXCEPT ![heldURL].pathname = <<"/", "z">>]
    /\ ret' = [NoCall EXCEPT !.op = "mutateURL"]
    /\ steps' = steps + 1
    /\ UNCHANGED trace
    /\ UNCHANGED agentState
    /\ UNCHANGED <<optimizationsEnabled, headerCache, urlCache, pool, objHeap, arrHeap,
                   bufLen, produced, heldHeaders, heldURL, heldBufs>>

\* the caller assigns url.host = "Y" on the URL object it received
MutateURLHost ==
    /\ steps < MaxSteps
    /\ heldURL # 0
    /\ urlHeap' = [urlHeap EXCEPT ![heldURL].host = LowerAll(<<"Y">>)]
    /\ ret' = [NoCall EXCEPT !.op = "mutateURL"]
    /\ steps' = steps + 1
    /\ UNCHANGED trace
    /\ UNCHANGED agentState
    /\ UNCHANGED <<optimizationsEnabled, headerCache, urlCache, pool, objHeap, arrHeap,
                   bufLen, produced, heldHeaders, heldURL, heldBufs>>

\* a slip: pooled buffers are handed out only while optimizations are enabled
TakesPooledIfEnabled(p, size) == optimizationsEnabled /\ Len(p) > 0 /\ size <= bufferSize

\* BufferPool.acquire: does it take a pooled buffer (line 102)
TakesPooled(p, size) == Len(p) > 0 /\ size <= bufferSize

\* a slip: shift() instead of pop()
PoolBottom(p) == p[1]

\* this.pool.pop(): the buffer taken
PoolTop(p) == p[Len(p)]

\* a slip: the buffer taken stays in the pool
PoolRestKept(p) == p

\* this.pool.pop(): what is left
PoolRest(p) == SubSeq(p, 1, Len(p) - 1)

\* BufferPool.acquire(size): lines 101-106
acquire(size) ==
    /\ steps < MaxSteps
    /\ IF TakesPooled(pool, size)
       THEN /\ pool' = PoolRest(pool)
            /\ bufLen' = bufLen
            /\ heldBufs' = heldBufs \cup {PoolTop(pool)}
            /\ ret' = [NoCall EXCEPT !.op = "acquire", !.arg = size, !.hit = TRUE,
                                     !.result = PoolTop(pool)]
       ELSE /\ pool' = pool
            /\ bufLen' = Append(bufLen, size)
            /\ heldBufs' = heldBufs \cup {Len(bufLen) + 1}
            /\ ret' = [NoCall EXCEPT !.op = "acquire", !.arg = size,
                                     !.result = Len(bufLen) + 1]
    /\ steps' = steps + 1
    /\ UNCHANGED trace
    /\ UNCHANGED agentState
    /\ UNCHANGED <<optimizationsEnabled, headerCache, urlCache, objHeap, arrHeap, urlHeap,
                   produced, heldHeaders, heldURL>>

\* a slip: <= instead of <
AcceptsAtCapacity(p, length) == Len(p) <= maxPoolSize /\ length = bufferSize

\* a slip: >= instead of ===
AcceptsLarger(p, length) == Len(p) < maxPoolSize /\ length >= bufferSize

\* BufferPool.release: is the buffer pooled (line 109)
Accepts(p, length) == Len(p) < maxPoolSize /\ length = bufferSize

\* BufferPool.release(buffer): lines 108-112
release(buffer) ==
    /\ steps < MaxSteps
    /\ pool' = IF Accepts(pool, bufLen[buffer]) THEN Append(pool, buffer) ELSE pool
    /\ heldBufs' = heldBufs \ {buffer}
    /\ ret' = [NoCall EXCEPT !.op = "release", !.arg = buffer,
                             !.hit = Accepts(pool, bufLen[buffer])]
    /\ steps' = steps + 1
    /\ UNCHANGED trace
    /\ UNCHANGED agentState
    /\ UNCHANGED <<optimizationsEnabled, headerCache, urlCache, objHeap, arrHeap, urlHeap,
                   bufLen, produced, heldHeaders, heldURL>>

\* BufferPool.clear(): lines 114-116
clear ==
    /\ steps < MaxSteps
    /\ pool' = <<>>
    /\ ret' = [NoCall EXCEPT !.op = "clear"]
    /\ steps' = steps + 1
    /\ UNCHANGED trace
    /\ UNCHANGED agentState
    /\ UNCHANGED <<optimizationsEnabled, headerCache, urlCache, objHeap, arrHeap, urlHeap,
                   bufLen, produced, heldHeaders, heldURL, heldBufs>>

\* a slip: the newest entry survives
MapClearKeepsNewest(cache) == IF cache = <<>> THEN <<>> ELSE <<cache[Len(cache)]>>

\* map.clear(): what is left of the map
MapClear(cache) == <<>>

\* clearOptimizationCaches(): lines 158-162
clearOptimizationCaches ==
    /\ steps < MaxSteps
    /\ headerCache' = MapClear(headerCache)
    /\ urlCache' = MapClear(urlCache)
    /\ pool' = <<>>
    /\ ret' = [NoCall EXCEPT !.op = "clearOptimizationCaches"]
    /\ steps' = steps + 1
    /\ UNCHANGED trace
    /\ UNCHANGED agentState
    /\ UNCHANGED <<optimizationsEnabled, objHeap, arrHeap, urlHeap, bufLen, produced,
                   heldHeaders, heldURL, heldBufs>>

\* the number of sockets filed under any name in agent.sockets / agent.freeSockets
SocketCount(filed) ==
    LET RECURSIVE Sum(_)
        Sum(ds) == IF ds = {} THEN 0
                   ELSE LET d == CHOOSE x \in ds : TRUE IN filed[d] + Sum(ds \ {d})
    IN Sum(DOMAIN filed)

\* Object.keys(filed).length: an agent keeps a name only while sockets are filed
\* under it
KeyCount(filed) == Cardinality({d \in DOMAIN filed : filed[d] > 0})

\* a request over an agent some caller holds opens a socket to its destination
SocketOpen(agent, dest) ==
    /\ steps < MaxSteps
    /\ agent \in handedOut
    /\ sockets[agent][dest] < maxSockets
    /\ sockets' = [sockets EXCEPT ![agent][dest] = @ + 1]
    /\ ret' = [NoCall EXCEPT !.op = "socketOpen", !.agent = agent, !.dest = dest]
    /\ steps' = steps + 1
    /\ UNCHANGED trace
    /\ UNCHANGED <<optimizationsEnabled, headerCache, urlCache, pool, objHeap, arrHeap,
                   urlHeap, bufLen, produced, heldHeaders, heldURL, heldBufs,
                   freeSockets, handedOut>>

\* keepAlive: the response has ended, the socket goes idle (or is destroyed when
\* the agent already keeps maxFreeSockets)
SocketFree(agent, dest) ==
    /\ steps < MaxSteps
    /\ sockets[agent][dest] > 0
    /\ sockets' = [sockets EXCEPT ![agent][dest] = @ - 1]
    /\ freeSockets' = IF SocketCount(freeSockets[agent]) < maxFreeSockets
                      THEN [freeSockets EXCEPT ![agent][dest] = @ + 1]
                      ELSE freeSockets
    /\ ret' = [NoCall EXCEPT !.op = "socketFree", !.agent = agent, !.dest = dest]
    /\ steps' = steps + 1
    /\ UNCHANGED trace
    /\ UNCHANGED <<optimizationsEnabled, headerCache, urlCache, pool, objHeap, arrHeap,
                   urlHeap, bufLen, produced, heldHeaders, heldURL, heldBufs, handedOut>>

\* a request to the destination of an idle socket takes that socket
SocketReuse(agent, dest) ==
    /\ steps < MaxSteps
    /\ freeSockets[agent][dest] > 0
    /\ freeSockets' = [freeSockets EXCEPT ![agent][dest] = @ - 1]
    /\ sockets' = [sockets EXCEPT ![agent][dest] = @ + 1]
    /\ ret' = [NoCall EXCEPT !.op = "socketReuse", !.agent = agent, !.dest = dest]
    /\ steps' = steps + 1
    /\ UNCHANGED trace
    /\ UNCHANGED <<optimizationsEnabled, headerCache, urlCache, pool, objHeap, arrHeap,
                   urlHeap, bufLen, produced, heldHeaders, heldURL, heldBufs, handedOut>>

\* timeout: an idle socket is closed
SocketClose(agent, dest) ==
    /\ steps < MaxSteps
    /\ freeSockets[agent][dest] > 0
    /\ freeSockets' = [freeSockets EXCEPT ![agent][dest] = @ - 1]
    /\ ret' = [NoCall EXCEPT !.op = "socketClose", !.agent = agent, !.dest = dest]
    /\ steps' = steps + 1
    /\ UNCHANGED trace
    /\ UNCHANGED <<optimizationsEnabled, headerCache, urlCache, pool, objHeap, arrHeap,
                   urlHeap, bufLen, produced, heldHeaders, heldURL, heldBufs, sockets,
                   handedOut>>

\* the object getOptimizationStats() returns: lines 169-177
Stats ==
    [headerCacheSize       |-> Len(headerCache),
     urlCacheSize          |-> Len(urlCache),
     bufferPoolSize        |-> Len(pool),
     httpAgentSockets      |-> KeyCount(sockets["httpAgent"]),
     httpsAgentSockets     |-> KeyCount(sockets["httpsAgent"]),
     httpAgentFreeSockets  |-> KeyCount(freeSockets["httpAgent"]),
     httpsAgentFreeSockets |-> KeyCount(freeSockets["httpsAgent"])]

\* getOptimizationStats(): lines 168-178
getOptimizationStats ==
    /\ steps < MaxSteps
    /\ ret' = [NoCall EXCEPT !.op = "getOptimizationStats", !.stats = Stats]
    /\ steps' = steps + 1
    /\ UNCHANGED trace
    /\ UNCHANGED <<optimizationsEnabled, headerCache, urlCache, pool, objHeap, arrHeap,
                   urlHeap, bufLen, produced, heldHeaders, heldURL, heldBufs, sockets,
                   freeSockets, handedOut>>

\* getCachedHeaders(key, factory)
getCachedHeaders ==
    \/ \E key \in ProbeKeys, f \in Factories : getCachedHeadersHit(key, f)
    \/ \E key \in ProbeKeys, f \in Factories : getCachedHeadersMiss(key, f)
    \/ \E key \in ProbeKeys : getCachedHeadersThrow(key)

\* getOptimizedURL(url)
getOptimizedURL ==
    \/ getOptimizedURLObject
    \/ \E text \in ProbeTexts : getOptimizedURLHit(text)
    \/ \E text \in ProbeTexts : getOptimizedURLMiss(text)
    \/ \E text \in ProbeTexts : getOptimizedURLThrow(text)

\* the header cache's operation, and what a caller does with its result
HeaderOps ==
    \/ getCachedHeaders
    \/ MutateHeadersSet
    \/ MutateHeadersPush

\* the URL cache's operation, and what a caller does with its result
URLOps ==
    \/ getOptimizedURL
    \/ MutateURLPath
    \/ MutateURLHost

\* the buffer pool's operations
PoolOps ==
    \/ \E size \in Sizes : acquire(size)
    \/ \E buffer \in heldBufs : release(buffer)
    \/ clear

\* the toggle and the lookup of an agent
AgentOps ==
    \/ \E enabled \in BOOLEAN : setOptimizationsEnabled(enabled)
    \/ \E protocol \in Protocols : getOptimizedAgent(protocol)

\* what the transport layer does with the sockets of the agents
SocketOps ==
    \/ \E agent \in Agents, dest \in Destinations : SocketOpen(agent, dest)
    \/ \E agent \in Agents, dest \in Destinations : SocketFree(agent, dest)
    \/ \E agent \in Agents, dest \in Destinations : SocketReuse(agent, dest)
    \/ \E agent \in Agents, dest \in Destinations : SocketClose(agent, dest)

Next ==
    \/ AgentOps
    \/ SocketOps
    \/ HeaderOps
    \/ URLOps
    \/ PoolOps
    \/ clearOptimizationCaches
    \/ getOptimizationStats

NextHeaders == HeaderOps \/ clearOptimizationCaches

NextURLs == URLOps \/ clearOptimizationCaches

NextCaches == getCachedHeaders \/ getOptimizedURL \/ clearOptimizationCaches

NextRequests == getCachedHeaders \/ clearOptimizationCaches

NextPool == PoolOps \/ clearOptimizationCaches

\* the module from load
Spec == Init /\ [][Next]_vars

\* the module from load, or with both agents in use
SpecAgents == InitAgents /\ [][Next]_vars

\* the header cache, from load or from one entry below capacity
SpecHeaders == InitHeaders /\ [][NextHeaders]_vars

\* the URL cache, from load or from one entry below capacity
SpecURLs == InitURLs /\ [][NextURLs]_vars

\* the calls on the two caches, from load or from either cache one entry below capacity
SpecCaches == InitCaches /\ [][NextCaches]_vars

\* requests that call getCachedHeaders, one call at a time in any order, and
\* resets, from load or from one entry below capacity
SpecRequests == InitHeaders /\ [][NextRequests]_vars

\* the buffer pool, from load or from one buffer below capacity
SpecPool == InitPool /\ [][NextPool]_vars

----------------------------------------------------------------------------
(* Properties *)

\* the steps that are a call of getCachedHeaders / getOptimizedURL(text) which misses
HeaderMissStep == ret'.op = "getCachedHeaders" /\ ~MapHas(headerCache, ret'.key)

URLMissStep == ret'.op = "getOptimizedURL" /\ ~MapHas(urlCache, ret'.text)

\* C1: after any sequence of getCachedHeaders, getOptimizedURL and
\* clearOptimizationCaches calls, the header cache and the URL cache each hold
\* at most 1000 entries.
C1_CachesBounded ==
    /\ Len(headerCache) <= MAX_HEADER_CACHE_SIZE
    /\ Len(urlCache) <= MAX_URL_CACHE_SIZE
    /\ Cardinality(MapKeys(headerCache)) = Len(headerCache)
    /\ Cardinality(MapKeys(urlCache)) = Len(urlCache)

\* both caches are full, the header cache after an insertion at capacity
C1_Witness ==
    /\ Len(headerCache) = MAX_HEADER_CACHE_SIZE
    /\ ~MapHas(headerCache, 1)
    /\ Len(urlCache) = MAX_URL_CACHE_SIZE

\* a miss that stores into the full cache `before` leaves `after`: one entry is
\* gone, the first inserted; the others are all there, in their order; the new
\* key is last
EvictedOldest(before, after, key) ==
    /\ Len(after) = Len(before)
    /\ \A i \in 1..(Len(before) - 1) : after[i] = before[i + 1]
    /\ after[Len(after)].key = key
    /\ ~MapHas(after, before[1].key)

\* C2: a miss on a new key when the header or URL cache holds 1000 entries
\* evicts exactly the earliest-inserted entry and stores the new key, so that
\* occupancy stays 1000 and the evicted key is no longer in the cache.
C2_EvictsOldest ==
    [][ /\ (Len(headerCache) = MAX_HEADER_CACHE_SIZE /\ HeaderMissStep /\ ~ret'.error)
            => /\ EvictedOldest(headerCache, headerCache', ret'.key)
               /\ Len(headerCache') = MAX_HEADER_CACHE_SIZE
        /\ (Len(urlCache) = MAX_URL_CACHE_SIZE /\ URLMissStep /\ ~ret'.error)
            => /\ EvictedOldest(urlCache, urlCache', ret'.text)
               /\ Len(urlCache') = MAX_URL_CACHE_SIZE
      ]_vars

\* key 1, the first inserted, was evicted from the full header cache and asking
\* for it again has invoked its factory
C2_Witness ==
    /\ ret.op = "getCachedHeaders"
    /\ ret.key = 1
    /\ ret.factoryCalls = 1
    /\ ~ret.error
    /\ Len(headerCache) = MAX_HEADER_CACHE_SIZE
    /\ headerCache[1].key = 3

\* C3: getCachedHeaders(key, factory) invokes factory zero times when key is
\* cached, and exactly once when it is not; the factory's result is then stored
\* under key, so that key is cached when the call returns.
C3_FactoryOnMissOnly ==
    [][ ret'.op = "getCachedHeaders" =>
          /\ MapHas(headerCache, ret'.key) => ret'.factoryCalls = 0 /\ ~ret'.error
          /\ (~MapHas(headerCache, ret'.key)) =>
                /\ ret'.factoryCalls = 1
                /\ ~ret'.error =>
                      /\ MapHas(headerCache', ret'.key)
                      /\ DeepValue(objHeap'[MapGet(headerCache', ret'.key)], arrHeap')
                            = FactoryValue(ret'.factory)
      ]_vars

\* a key new to the cache is served without its factory: an earlier call has
\* invoked the factory and stored the result
C3_Witness ==
    /\ ret.op = "getCachedHeaders"
    /\ ret.key \in FreshKeys
    /\ ret.hit
    /\ ret.factoryCalls = 0
    /\ produced[ret.key] # "none"

\* C4: two consecutive getCachedHeaders(k, f) calls that return invoke f at most
\* once in total, and their results are value-equal, distinct objects, neither
\* of them the stored object.
C4_TwoCalls ==
    [][ ( /\ ret.op = "getCachedHeaders" /\ ~ret.error
          /\ ret'.op = "getCachedHeaders" /\ ~ret'.error
          /\ ret'.key = ret.key
          /\ ret'.factory = ret.factory )
        => /\ ret.factoryCalls + ret'.factoryCalls <= 1
           /\ DeepValue(objHeap'[ret'.result], arrHeap')
                 = DeepValue(objHeap[ret.result], arrHeap)
           /\ ret'.result # ret.result
           /\ MapGet(headerCache', ret'.key) \notin {ret.result, ret'.result}
      ]_vars

\* the second of two consecutive calls with the same key and factory, the first
\* of which missed
C4_Witness ==
    /\ steps = 2
    /\ ret.op = "getCachedHeaders"
    /\ ret.hit
    /\ ret.key \in FreshKeys
    /\ ret.factory = produced[ret.key]
    /\ ret.factory = "multi"

\* C5: whatever the caller did to the header objects it received, a
\* getCachedHeaders that finds its key cached returns a value equal to what the
\* factory originally produced.
C5_StoredValueIntact ==
    (ret.op = "getCachedHeaders" /\ ret.hit)
        => DeepValue(objHeap[ret.result], arrHeap) = FactoryValue(produced[ret.key])

\* C6: whatever the caller did to the URL objects it received, a
\* getOptimizedURL(text) that finds text cached yields the canonical form of text.
C6_CachedURLIntact ==
    (ret.op = "getOptimizedURL" /\ ret.hit)
        => Href(urlHeap[ret.result]) = Canonical(ret.text)

\* C7: getOptimizedURL of a text that fails to parse throws and leaves the URL
\* cache as it was: nothing is added, nothing is evicted, and no such text is
\* ever a key of the cache.
C7_FailedParseNotCached ==
    [][ /\ (URLMissStep /\ ~ParseURL(ret'.text).ok)
            => ret'.error /\ urlCache' = urlCache /\ ~MapHas(urlCache', ret'.text)
        /\ \A i \in 1..Len(urlCache') : ParseURL(urlCache'[i].key).ok
      ]_vars

\* a parse has failed with the URL cache full
C7_Witness ==
    /\ ret.op = "getOptimizedURL"
    /\ ret.error
    /\ Len(urlCache) = MAX_URL_CACHE_SIZE

\* C8: the pool never holds more than 100 buffers; a release into a pool of
\* 100 drops the buffer, leaves the pool unchanged and throws nothing.
C8_PoolBounded ==
    [][ /\ Len(pool) <= maxPoolSize
        /\ Len(pool') <= maxPoolSize
        /\ (ret'.op = "release" /\ Len(pool) = maxPoolSize)
            => pool' = pool /\ ~ret'.error /\ ~ret'.hit
      ]_vars

\* a buffer of the pool's size was released into the full pool
C8_Witness ==
    /\ ret.op = "release"
    /\ ~ret.hit
    /\ bufLen[ret.arg] = bufferSize
    /\ Len(pool) = maxPoolSize

\* C9: every pooled buffer has length 16384; releasing a buffer of another
\* length leaves the pool unchanged and throws nothing.
C9_PoolHoldsOneSize ==
    [][ /\ \A i \in 1..Len(pool') : bufLen'[pool'[i]] = bufferSize
        /\ (ret'.op = "release" /\ bufLen[ret'.arg] # bufferSize)
            => pool' = pool /\ ~ret'.error /\ ~ret'.hit
      ]_vars

\* a buffer of another length was released into a pool with room
C9_Witness ==
    /\ ret.op = "release"
    /\ bufLen[ret.arg] # bufferSize
    /\ Len(pool) > 0
    /\ Len(pool) < maxPoolSize

\* C10 as stated: an acquire (size within the buffer size) that directly follows
\* a release returns the released buffer.
C10_ReleasedIsReacquired ==
    [][ (ret.op = "release" /\ ret'.op = "acquire" /\ ret'.arg <= bufferSize)
            => ret'.result = ret.arg
      ]_vars

\* C10 amended: an acquire (size within the buffer size) that directly follows
\* a release which pooled its buffer returns that buffer and allocates nothing.
C10_PooledIsReacquired ==
    [][ (ret.op = "release" /\ ret.hit /\ ret'.op = "acquire" /\ ret'.arg <= bufferSize)
            => ret'.result = ret.arg /\ bufLen' = bufLen
      ]_vars

\* buffer 100 went back to the warm pool and the next call acquired it
C10_Witness ==
    /\ steps = 2
    /\ ret.op = "acquire"
    /\ ret.hit
    /\ ret.result = maxPoolSize

\* the toggle at the time of the i-th recorded call: what the last
\* setOptimizationsEnabled before it has set, or the initial true
EnabledAt(i) ==
    LET sets == {j \in 1..(i - 1) : trace[j].op = "setOptimizationsEnabled"}
    IN IF sets = {} THEN TRUE
       ELSE trace[CHOOSE j \in sets : \A k \in sets : k <= j].enabled

\* the recorded lookups
Lookups == {i \in 1..Len(trace) : trace[i].op = "getOptimizedAgent"}

\* C11: a lookup made while optimizations are disabled returns undefined, for
\* either scheme and whatever came before; a lookup made while they are enabled
\* returns the agent of its scheme, the same one as every earlier lookup of that
\* scheme, however often the toggle was switched in between.
C11_UndefinedOrOriginalAgent ==
    \A i \in Lookups :
        IF ~EnabledAt(i)
        THEN trace[i].agent = "undefined"
        ELSE /\ trace[i].agent = (IF trace[i].protocol = "https:" THEN "httpsAgent"
                                                                  ELSE "httpAgent")
             /\ \A j \in Lookups :
                    (j < i /\ trace[j].protocol = trace[i].protocol /\ EnabledAt(j))
                        => trace[j].agent = trace[i].agent

\* both agents had been returned before; optimizations were then disabled and
\* enabled again, and the lookup for https returned the https agent
C11_Witness ==
    /\ handedOut = Agents
    /\ Len(trace) = 3
    /\ trace[1].op = "setOptimizationsEnabled" /\ ~trace[1].enabled
    /\ trace[2].op = "setOptimizationsEnabled" /\ trace[2].enabled
    /\ trace[3].op = "getOptimizedAgent" /\ trace[3].protocol = "https:"
    /\ trace[3].agent = "httpsAgent"

\* what the caches and the pool hold, and the objects they refer to
Structures == <<headerCache, urlCache, pool, objHeap, arrHeap, urlHeap, bufLen>>

\* what decides the outcome of getCachedHeaders, getOptimizedURL, acquire and
\* release, for every input: is the key cached and what is stored under it,
\* is a pooled buffer taken and which, is a released buffer pooled
Decisions ==
    [headerHit  |-> [key \in ProbeKeys |-> MapHas(headerCache, key)],
     headerRef  |-> [key \in ProbeKeys |->
                        IF MapHas(headerCache, key) THEN MapGet(headerCache, key) ELSE 0],
     headerNext |-> [key \in ProbeKeys |-> HeaderCacheStore(headerCache, key, 0)],
     urlHit     |-> [text \in ProbeTexts |-> MapHas(urlCache, text)],
     urlRef     |-> [text \in ProbeTexts |->
                        IF MapHas(urlCache, text) THEN MapGet(urlCache, text) ELSE 0],
     urlNext    |-> [text \in ProbeTexts |-> UrlCacheStore(urlCache, text, 0)],
     takes      |-> [size \in Sizes |-> TakesPooled(pool, size)],
     accepts    |-> [buffer \in DOMAIN bufLen |-> Accepts(pool, bufLen[buffer])]]

\* C12: setOptimizationsEnabled changes nothing of the header cache, the URL
\* cache and the buffer pool, and what getCachedHeaders, getOptimizedURL,
\* acquire and release decide for any input is the same after the toggle was
\* set as before; these four leave the toggle alone, and hit, take and pool
\* by the contents of the cache or pool only.
C12_ToggleGatesLookupOnly ==
    [][ /\ ret'.op = "setOptimizationsEnabled"
            => /\ UNCHANGED Structures
               /\ Decisions' = Decisions
        /\ ret'.op \in {"getCachedHeaders", "getOptimizedURL", "acquire", "release"}
            => optimizationsEnabled' = optimizationsEnabled
        /\ ret'.op = "getCachedHeaders"
            => ret'.hit = (\E i \in 1..Len(headerCache) : headerCache[i].key = ret'.key)
        /\ ret'.op = "getOptimizedURL"
            => ret'.hit = (\E i \in 1..Len(urlCache) : urlCache[i].key = ret'.text)
        /\ ret'.op = "acquire"
            => ret'.hit = (Len(pool) > 0 /\ ret'.arg <= bufferSize)
        /\ ret'.op = "release"
            => ret'.hit = (Len(pool) < maxPoolSize /\ bufLen[ret'.arg] = bufferSize)
      ]_vars

\* with optimizations disabled a key was stored and the next call found it
C12_Witness ==
    /\ ~optimizationsEnabled
    /\ ret.op = "getCachedHeaders"
    /\ ret.hit
    /\ Len(trace) = 1
    /\ steps = 3

\* C13: clearOptimizationCaches leaves the header cache, the URL cache and the
\* buffer pool empty, whatever they held, and leaves the toggle, the two agents
\* (what a lookup returns, who holds them) and their sockets in use and idle
\* sockets as they were.
C13_ClearsCachesOnly ==
    [][ ret'.op = "clearOptimizationCaches"
        => /\ Len(headerCache') = 0
           /\ Len(urlCache') = 0
           /\ Len(pool') = 0
           /\ optimizationsEnabled' = optimizationsEnabled
           /\ \A p \in Protocols :
                 AgentFor(optimizationsEnabled', p) = AgentFor(optimizationsEnabled, p)
           /\ UNCHANGED <<sockets, freeSockets, handedOut>>
      ]_vars

\* a reset with optimizations disabled, a header entry stored before it and a
\* socket of the http agent in use
C13_Witness ==
    /\ ret.op = "clearOptimizationCaches"
    /\ ~optimizationsEnabled
    /\ Len(objHeap) > 0
    /\ headerCache = <<>>
    /\ SocketCount(sockets["httpAgent"]) > 0

\* C14: getOptimizationStats reports, for each agent, the number of its sockets
\* in use and the number of its idle sockets, however the sockets are spread
\* over destinations, and it changes nothing.
C14_StatsCountSockets ==
    [][ ret'.op = "getOptimizationStats"
        => /\ ret'.stats.httpAgentSockets = SocketCount(sockets["httpAgent"])
           /\ ret'.stats.httpsAgentSockets = SocketCount(sockets["httpsAgent"])
           /\ ret'.stats.httpAgentFreeSockets = SocketCount(freeSockets["httpAgent"])
           /\ ret'.stats.httpsAgentFreeSockets = SocketCount(freeSockets["httpsAgent"])
           /\ UNCHANGED <<optimizationsEnabled, headerCache, urlCache, pool, objHeap,
                          arrHeap, urlHeap, bufLen, sockets, freeSockets, handedOut>>
      ]_vars

\* C15: two consecutive getOptimizedURL(t) calls that return, for the same text
\* t, return two different objects with the same href.
C15_TwoResolutions ==
    [][ ( /\ ret.op = "getOptimizedURL" /\ ~ret.error
          /\ ret'.op = "getOptimizedURL" /\ ~ret'.error
          /\ ret'.text = ret.text )
        => /\ ret'.result # ret.result
           /\ Href(urlHeap'[ret'.result]) = Href(urlHeap'[ret.result])
           /\ Href(urlHeap'[ret.result]) = Href(urlHeap[ret.result])
      ]_vars

\* "HTTP://X/1" was resolved twice from the empty cache: a miss, then a hit
C15_Witness ==
    /\ steps = 2
    /\ ret.op = "getOptimizedURL"
    /\ ret.hit
    /\ ret.text = UpperText
    /\ Len(urlCache) = 1
    /\ Len(urlHeap) = 2
    /\ Href(urlHeap[2]) = Canonical(UpperText)

C17_OneInvocationForAll ==
    [][ (ret'.op = "getCachedHeaders" /\ ~ret'.error)
        => LET k == ret'.key
               stored == \E i \in 1..Len(headerCache) : headerCache[i].key = k
           IN /\ ret'.factoryCalls = (IF stored THEN 0 ELSE 1)
              /\ stored => produced'[k] = produced[k]
              /\ DeepValue(objHeap'[ret'.result], arrHeap') = FactoryValue(produced'[k])
              /\ \E i \in 1..Len(headerCache') : headerCache'[i].key = k
              /\ Len(headerCache) < MAX_HEADER_CACHE_SIZE
                    => \A i \in 1..Len(headerCache) : headerCache'[i] = headerCache[i]
      ]_vars

\* three requests for one key that was absent from the empty cache: the first
\* stored it, the second and the third found it
C17_Witness ==
    /\ steps = 3
    /\ ret.op = "getCachedHeaders"
    /\ ret.hit
    /\ ret.key \in FreshKeys
    /\ produced[ret.key] = "multi"
    /\ Len(headerCache) = 1
    /\ Len(objHeap) = 4

\* C18: getOptimizedURL(text) hits exactly when text itself, character for
\* character, is a key of the URL cache; a miss that parses stores its object
\* under text itself and, below capacity, adds one entry and leaves the others,
\* whether or not a different text of the same URL is already stored.
C18_KeyedByExactText ==
    [][ ret'.op = "getOptimizedURL"
        => /\ ret'.hit = (\E i \in 1..Len(urlCache) : urlCache[i].key = ret'.text)
           /\ (~ret'.hit /\ ~ret'.error)
                => /\ urlCache'[Len(urlCache')].key = ret'.text
                   /\ Len(urlCache) < MAX_URL_CACHE_SIZE
                        => /\ Len(urlCache') = Len(urlCache) + 1
                           /\ \A i \in 1..Len(urlCache) : urlCache'[i] = urlCache[i]
      ]_vars

\* "http://x/1" and "HTTP://X/1", two texts of one URL, were resolved from the
\* empty cache: both missed and the cache holds an entry for each
C18_Witness ==
    /\ steps = 2
    /\ ret.op = "getOptimizedURL"
    /\ ~ret.hit
    /\ Len(urlCache) = 2
    /\ urlCache[1].key # urlCache[2].key
    /\ Canonical(urlCache[1].key) = Canonical(urlCache[2].key)
    /\ Href(urlHeap[urlCache[1].ref]) = Href(urlHeap[urlCache[2].ref])

\* C19: a getCachedHeaders whose factory throws leaves the header cache exactly
\* as it was, also when the cache is full: the key is not stored and no entry
\* is evicted.
C19_FactoryThrowLeavesCache ==
    [][ (ret'.op = "getCachedHeaders" /\ ret'.error)
        => /\ headerCache' = headerCache
           /\ ~MapHas(headerCache', ret'.key)
           /\ Len(headerCache) > 0 => MapHas(headerCache', headerCache[1].key)
      ]_vars

\* a factory has thrown with the header cache full
C19_Witness ==
    /\ ret.op = "getCachedHeaders"
    /\ ret.error
    /\ ret.factoryCalls = 1
    /\ Len(headerCache) = MAX_HEADER_CACHE_SIZE

\* C20: callers release only buffers they hold, each once, and a released
\* buffer is no longer theirs.  Then no buffer is in the pool twice, no buffer
\* is both in the pool and held, and acquire never returns a buffer that a
\* caller still holds, whatever the order of acquire, release and clear.
C20_NoBufferShared ==
    [][ /\ \A i, j \in 1..Len(pool') : pool'[i] = pool'[j] => i = j
        /\ \A i \in 1..Len(pool') : pool'[i] \notin heldBufs'
        /\ ret'.op = "acquire" => ret'.result \notin heldBufs
        /\ ret'.op = "release" => ret'.arg \in heldBufs /\ ret'.arg \notin heldBufs'
      ]_vars

\* the two held buffers were released, one into the last free place of the
\* pool, and a caller then acquired that one: it is the caller's alone
C20_Witness ==
    /\ steps = 3
    /\ ret.op = "acquire"
    /\ ret.hit
    /\ heldBufs = {ret.result}
    /\ Len(pool) = maxPoolSize - 1
    /\ \A i \in 1..Len(pool) : pool[i] # ret.result

====
